---- MODULE Spec2Model ----
(***************************************************************************)
(* TWAP execution engine of BB-Bot (src/src/twap.ts, class TWAPStrategy)   *)
(* as a state machine.                                                     *)
(*                                                                         *)
(* Amounts and prices are decimal strings that the code always renders    *)
(* with toFixed(8); they are modelled as integers counting units of       *)
(* 10^-8.  Wall-clock time is Date.now() in milliseconds.  One step of the *)
(* model is one run-to-completion turn of the Node event loop: the         *)
(* synchronous part of a handler up to its next await, with every call it  *)
(* makes.  An executeOrder() invocation suspended at an await is a "tick"   *)
(* record with its captured locals.                                        *)
(***************************************************************************)
EXTENDS Integers, Sequences, FiniteSets, Bags, TLC

VARIABLES
    config,         \* TWAPStrategy.config (immutable after construction)
    now,            \* Date.now(), ms
    isRunning,      \* TWAPStrategy.isRunning
    state,          \* TWAPStrategy.state : TWAPState
    intervalTimer,  \* TWAPStrategy.intervalTimer: handle of a timer, 0 = undefined
    timers,         \* the event loop's setInterval timers: handle -> next due time, Off = not armed
    ticks,          \* the bag of executeOrder() invocations suspended at an await
    nextOrderId,    \* number of orders the venue has received so far
    everStarted,    \* whether start() has ever initialised a run
    out,            \* what the last step did: the public method called, then its logger calls
    report,         \* the execution summaries the last step logged (logFinalStats)
    snapshot,       \* the object the last getState() call returned to its caller
    call,           \* a BluefinClient operation inside executeWithRetry
    monitorInterval \* BuybackBot.start's monitor timer: "unset", "armed" or "cleared"

vars == <<config, now, isRunning, state, intervalTimer, timers, ticks,
          nextOrderId, everStarted, out, report, snapshot, call, monitorInterval>>

----------------------------------------------------------------------------
(* Bounds of the model *)

MaxTime == 3        \* the clock stops advancing after MaxTime seconds
MaxTimers == 2      \* at most MaxTimers setInterval timers are armed at once
MaxTicks == 2       \* at most MaxTicks executeOrder() invocations are suspended at once
MaxOrders == 2      \* the venue receives at most MaxOrders orders

----------------------------------------------------------------------------
(* Program constants *)

FractionDigits == 8
MsPerSecond == 1000
Absent == -1                            \* an optional field that is undefined
Off == -1                               \* a timer handle that is not armed
Unit == 10 ^ FractionDigits             \* 1.00000000
Negligible == Unit \div 10000           \* 0.0001

Min(a, b) == IF a < b THEN a ELSE b

\* Number.prototype.toFixed(8) of the quotient a / b of two 8-digit decimals
RoundDiv(a, b) == (2 * a + b) \div (2 * b)

----------------------------------------------------------------------------
(* Configurations accepted by validateTWAPConfig; amounts in units of 10^-8, *)
(* slippageTolerance as the fraction slipNum / slipDen.  pair is "" when    *)
(* config.json has none; slipKind tells whether config.json holds a number  *)
(* for slippageTolerance ("undefined": the key is missing); timeKind tells  *)
(* whether it holds duration and interval as numbers or as quoted strings   *)
(* (JSON.parse keeps either, part_000 72).                                  *)

Cfg(total, dur, int, mn, mx, sn) ==
    [pair |-> "SUI/USDC", totalAmount |-> total, duration |-> dur, interval |-> int,
     minOrderSize |-> mn, maxOrderSize |-> mx,
     slipKind |-> "number", slipNum |-> sn, slipDen |-> 100,
     timeKind |-> "number"]

RECURSIVE decimal(_), lexGreater(_, _)
\* String(n) of a natural number, as its sequence of digits
decimal(n) == IF n < 10 THEN <<n>> ELSE Append(decimal(n \div 10), n % 10)

\* s > t of two strings: by the first character that differs, a proper prefix being less
lexGreater(s, t) ==
    IF s = <<>> THEN FALSE
    ELSE IF t = <<>> THEN TRUE
    ELSE IF Head(s) # Head(t) THEN Head(s) > Head(t)
    ELSE lexGreater(Tail(s), Tail(t))

\* a > b of JavaScript: numeric, unless both operands are strings
greaterThan(kind, a, b) ==
    IF kind = "string" THEN lexGreater(decimal(a), decimal(b)) ELSE a > b

\* part_000 91-119.  A comparison of undefined with a number is false; a
\* quoted number is truthy and is converted for a comparison with 0.
validateTWAPConfig(c) ==
    /\ c.pair # ""
    /\ c.totalAmount > 0
    /\ c.duration > 0
    /\ c.interval > 0
    /\ ~greaterThan(c.timeKind, c.interval, c.duration)
    /\ ~(c.slipKind = "number" /\ (c.slipNum < 0 \/ c.slipNum > c.slipDen))
    /\ c.minOrderSize > 0
    /\ c.maxOrderSize > 0
    /\ ~(c.minOrderSize > c.maxOrderSize)

Configs ==
    { Cfg(20000, 3, 1, 10000, 20000, 1),     \* raw size 0.00006667 clamped to min: 2 orders of 0.0001
      Cfg(5000, 2, 2, 20000, 20000, 1) }     \* total below the negligible threshold

\* getMarketPrice() returns Number(price) / 10^18 as a string (part_000 157-161,
\* 238-250): a market price may have more than 8 fractional digits.  Market
\* prices are counted in units of 10^-8 / PriceScale.
PriceScale == 10
MarketPrices == { 2000 }

----------------------------------------------------------------------------
(* Pure functions of TWAPStrategy *)

initializeState(c, t) ==
    [totalAmount |-> c.totalAmount,
     remainingAmount |-> c.totalAmount,
     executedAmount |-> 0,
     orders |-> <<>>,
     startTime |-> t,
     endTime |-> t + c.duration * MsPerSecond,
     averageExecutionPrice |-> Absent]

calculateNumberOfOrders(c) == c.duration \div c.interval

\* calculateOrderSize without its clamp to maxOrderSize
calculateOrderSize_noMax(c) ==
    LET orderSize == RoundDiv(c.totalAmount, calculateNumberOfOrders(c)) IN
    IF c.totalAmount < c.minOrderSize * calculateNumberOfOrders(c) THEN c.minOrderSize
    ELSE orderSize

\* calculateOrderSize(), twap.ts 42-66
calculateOrderSize(c) ==
    LET orderSize == RoundDiv(c.totalAmount, calculateNumberOfOrders(c)) IN
    IF c.totalAmount < c.minOrderSize * calculateNumberOfOrders(c) THEN c.minOrderSize
    ELSE IF c.totalAmount > c.maxOrderSize * calculateNumberOfOrders(c) THEN c.maxOrderSize
    ELSE orderSize

----------------------------------------------------------------------------
(* BluefinClient.executeWithRetry (part_000 255-276) and isRetryableError   *)
(* (part_000 281-296).  An error message is a sequence of words;            *)
(* String.includes is modelled as the presence of a word.                   *)

maxRetries == 3
retryDelay == 1000

GatewayOps == { "placeOrder", "getOrderStatus", "cancelOrder", "getMarketPrice" }

\* messages of the errors an attempt may fail with
ErrorMessages ==
    { <<"Bluefin API error:", "503">>,
      <<"Bluefin API error:", "502">>,
      <<"Bluefin API error:", "500">>,
      <<"Bluefin API error:", "429", "rate limit">>,
      <<"Network", "timeout">>,
      <<"read", "ECONNRESET">>,
      <<"connect", "ETIMEDOUT">>,
      <<"getaddrinfo", "ENOTFOUND">>,
      <<"Bluefin API error:", "400", "insufficient balance">>,
      <<"Failed to get market price">> }

\* part_000 282-292
retryableMessages ==
    { "network", "timeout", "ECONNRESET", "ETIMEDOUT", "ENOTFOUND",
      "rate limit", "503", "502", "500" }

\* String.prototype.toLowerCase on one word
toLowerCaseWord(w) ==
    CASE w = "Network" -> "network"
      [] w = "ECONNRESET" -> "econnreset"
      [] w = "ETIMEDOUT" -> "etimedout"
      [] w = "ENOTFOUND" -> "enotfound"
      [] w = "Bluefin API error:" -> "bluefin api error:"
      [] w = "Failed to get market price" -> "failed to get market price"
      [] OTHER -> w

toLowerCase(message) == [i \in DOMAIN message |-> toLowerCaseWord(message[i])]

includes(message, word) == \E i \in DOMAIN message : message[i] = word

\* part_000 281-296
isRetryableError(error) ==
    LET errorMessage == toLowerCase(error) IN
    \E msg \in retryableMessages : includes(errorMessage, msg)

\* a backoff that does not grow
backoff_constant(attempt) == retryDelay

\* part_000 264: this.retryDelay * Math.pow(2, attempt)
backoff(attempt) == retryDelay * 2 ^ attempt

\* no gateway operation in progress
NoCall ==
    [pc |-> "idle", op |-> "none", attempt |-> 0, lastError |-> <<>>,
     errors |-> <<>>, sleeps |-> <<>>, thrown |-> <<>>]

----------------------------------------------------------------------------
(* getState(), twap.ts 256-258: `{ ...this.state }` copies the fields of     *)
(* RunState into a new object.  The copy is shallow: its orders field is    *)
(* the engine's own array (aliased) until start() gives the engine a new    *)
(* RunState.                                                                *)

\* before any getState() call
NoSnapshot(c) == [taken |-> FALSE, aliased |-> FALSE, state |-> initializeState(c, 0)]

getState(st) == [taken |-> TRUE, aliased |-> TRUE, state |-> st]

----------------------------------------------------------------------------
(* The engine's mutable fields as one record, so that the methods below can  *)
(* be composed the way the code calls them.                                 *)

Engine ==
    [isRunning |-> isRunning, state |-> state, intervalTimer |-> intervalTimer,
     timers |-> timers, ticks |-> ticks, nextOrderId |-> nextOrderId,
     everStarted |-> everStarted, out |-> <<>>, report |-> <<>>,
     snapshot |-> snapshot, overflow |-> FALSE]

Commit(m) ==
    /\ ~m.overflow
    /\ isRunning' = m.isRunning
    /\ state' = m.state
    /\ intervalTimer' = m.intervalTimer
    /\ timers' = m.timers
    /\ ticks' = m.ticks
    /\ nextOrderId' = m.nextOrderId
    /\ everStarted' = m.everStarted
    /\ out' = m.out
    /\ report' = m.report
    /\ snapshot' = m.snapshot
    /\ call' = call
    /\ monitorInterval' = monitorInterval

TimerIds == 1 .. MaxTimers

\* the locals of an executeOrder() invocation suspended at `await getCurrentPrice()`
\* (stale: a later start() has replaced the run it began in; lateOrder: it
\* submitted its order when that run had already ended)
NewTick ==
    [pc |-> "price", remainingFloat |-> 0, orderSize |-> 0, price |-> 0,
     orderId |-> 0, starter |-> FALSE, stale |-> FALSE, lateOrder |-> FALSE]

InFlight(tk) == BagCardinality(tk)

log(m, msg) == [m EXCEPT !.out = Append(@, msg)]

\* twap.ts 271-272: the orders of a given status
ordersWithStatus(os, status) == SelectSeq(os, LAMBDA o : o.status = status)

\* twap.ts 274-279: the figures of the execution summary
summary(st) ==
    [totalOrders |-> Len(st.orders),
     filledOrders |-> Len(ordersWithStatus(st.orders, "filled")),
     pendingOrders |-> Len(ordersWithStatus(st.orders, "pending")),
     totalExecuted |-> st.executedAmount,
     remaining |-> st.remainingAmount]

\* a logFinalStats() that logs nothing
logFinalStats_silent(m) == m

\* logFinalStats(), twap.ts 270-284
logFinalStats(m) ==
    log([m EXCEPT !.report = Append(@, summary(m.state))], "summary")

\* stop() without its `if (!this.isRunning) return`
stop_noGuard(m) ==
    logFinalStats(log(
      [m EXCEPT !.isRunning = FALSE,
                !.timers = IF m.intervalTimer # 0
                           THEN [@ EXCEPT ![m.intervalTimer] = Off]
                           ELSE @,
                !.intervalTimer = 0],
      "TWAP execution stopped"))

\* stop() without its `this.isRunning = false`
stop_keepsRunning(m) ==
    IF ~m.isRunning THEN m
    ELSE logFinalStats(log(
           [m EXCEPT !.timers = IF m.intervalTimer # 0
                                THEN [@ EXCEPT ![m.intervalTimer] = Off]
                                ELSE @,
                     !.intervalTimer = 0],
           "TWAP execution stopped"))

\* stop(), twap.ts 237-251
stop(m) ==
    IF ~m.isRunning THEN m
    ELSE logFinalStats(log(
           [m EXCEPT !.isRunning = FALSE,
                     !.timers = IF m.intervalTimer # 0
                                THEN [@ EXCEPT ![m.intervalTimer] = Off]
                                ELSE @,
                     !.intervalTimer = 0],
           "TWAP execution stopped"))

\* the lowest identifier of a non-empty set
Lowest(ids) == CHOOSE i \in ids : \A j \in ids : i <= j

\* setInterval(...), twap.ts 229-231: arms a new timer and stores its handle
setInterval(m) ==
    IF \A id \in TimerIds : m.timers[id] # Off THEN [m EXCEPT !.overflow = TRUE]
    ELSE LET id == Lowest({ i \in TimerIds : m.timers[i] = Off }) IN
         [m EXCEPT !.timers[id] = now + config.interval * MsPerSecond,
                   !.intervalTimer = id]

\* suspend a new executeOrder() invocation at `await this.getCurrentPrice()`
suspend(m, tick) ==
    IF InFlight(m.ticks) >= MaxTicks THEN [m EXCEPT !.overflow = TRUE]
    ELSE [m EXCEPT !.ticks = @ (+) SetToBag({tick})]

\* a suspended invocation moves on (to tick) or returns (to nothing)
resume(m, tk, next) ==
    [m EXCEPT !.ticks = (@ (-) SetToBag({tk})) (+) SetToBag(next)]

\* the end-time test written with > for >=
durationExceeded_strict(t, endTime) == t > endTime

\* twap.ts 89-90 and 97: the two completion tests at the head of a tick
noRemaining(remainingFloat) == remainingFloat <= 0
durationExceeded(t, endTime) == t >= endTime

\* twap.ts 104-105: the size of this tick's order
actualOrderSize(c, remainingFloat) == Min(calculateOrderSize(c), remainingFloat)

\* a sub-minimum size always taken as too small, whatever remains
tooSmall_always(c, remainingFloat) ==
    actualOrderSize(c, remainingFloat) < c.minOrderSize

\* twap.ts 107-116: the remainder is too small to execute
tooSmall(c, remainingFloat) ==
    /\ actualOrderSize(c, remainingFloat) < c.minOrderSize
    /\ ~(remainingFloat > Negligible)

\* executeOrder(), twap.ts 84-120: from the call to the first await.
\* starter: a start() call awaits this invocation (FALSE for a timer callback).
executeOrder(m, starter) ==
    IF ~m.isRunning THEN m
    ELSE LET remainingFloat == m.state.remainingAmount IN
         IF noRemaining(remainingFloat)
         THEN stop(log(m, "TWAP execution complete: no remaining amount"))
         ELSE IF durationExceeded(now, m.state.endTime)
         THEN stop(log(m, "TWAP execution complete: duration exceeded"))
         ELSE IF tooSmall(config, remainingFloat)
         THEN stop(log(m, "Remaining amount too small to execute"))
         ELSE suspend(
                IF actualOrderSize(config, remainingFloat) < config.minOrderSize
                THEN log(m, "Executing final order with remaining amount")
                ELSE m,
                [NewTick EXCEPT !.remainingFloat = remainingFloat,
                         !.orderSize = actualOrderSize(config, remainingFloat),
                         !.starter = starter])

\* start() without its setInterval call
startResume_noTimer(m, starter) == m

\* start(), twap.ts 226-231: what follows `await this.executeOrder()` in start()
startResume(m, starter) ==
    IF starter THEN setInterval(m) ELSE m

\* the invocations still suspended when a run is initialised belong to an earlier run
setStale(tk) == [tk EXCEPT !.stale = TRUE]
markStale(b) == BagOfAll(setStale, b)

\* start() without its `this.state = this.initializeState()`
start_keepsState(m) ==
    IF m.isRunning THEN log(m, "TWAP strategy is already running")
    ELSE LET m1 == log([m EXCEPT !.isRunning = TRUE,
                                 !.ticks = markStale(@),
                                 !.everStarted = TRUE],
                       "Starting TWAP execution")
             m2 == executeOrder(m1, TRUE)
         IN  IF m2.ticks = m1.ticks /\ ~m2.overflow
             THEN startResume(m2, TRUE)
             ELSE m2

\* start() without its `if (this.isRunning) return`
start_noGuard(m) ==
    LET m1 == log([m EXCEPT !.isRunning = TRUE,
                            !.state = initializeState(config, now),
                            !.snapshot.aliased = FALSE,
                            !.ticks = markStale(@),
                            !.everStarted = TRUE],
                  "Starting TWAP execution")
        m2 == executeOrder(m1, TRUE)
    IN  IF m2.ticks = m1.ticks /\ ~m2.overflow
        THEN startResume(m2, TRUE)
        ELSE m2

\* start(), twap.ts 209-231.  calculateOrderSize() throws out of start() when
\* numberOfOrders is 0 (twap.ts 44-46, 219), after isRunning and state were set.
start(m) ==
    IF m.isRunning THEN log(m, "TWAP strategy is already running")
    ELSE IF calculateNumberOfOrders(config) = 0
    THEN log([m EXCEPT !.isRunning = TRUE,
                       !.state = initializeState(config, now),
                       !.snapshot.aliased = FALSE,
                       !.ticks = markStale(@),
                       !.everStarted = TRUE],
             "Duration must be greater than interval")
    ELSE LET m1 == log([m EXCEPT !.isRunning = TRUE,
                                 !.state = initializeState(config, now),
                                 !.snapshot.aliased = FALSE,
                                 !.ticks = markStale(@),
                                 !.everStarted = TRUE],
                       "Starting TWAP execution")
             m2 == executeOrder(m1, TRUE)
         IN  IF m2.ticks = m1.ticks /\ ~m2.overflow
             THEN startResume(m2, TRUE)     \* the first tick returned without awaiting
             ELSE m2

\* isActive(), twap.ts 263-265
isActive == isRunning

----------------------------------------------------------------------------
(* The second half of executeOrder(): the continuations after each await.   *)

\* twap.ts 121, 128: slippageAdjustedPrice.toFixed(8), in units of 10^-8
slippageAdjustedPrice(c, currentPrice) ==
    RoundDiv(currentPrice * (c.slipDen + c.slipNum), c.slipDen * PriceScale)

\* twap.ts 135-141: the order handed to placeOrder by a tick waiting for it
orderParams(c, tk) ==
    [pair |-> c.pair, side |-> "buy", size |-> tk.orderSize,
     price |-> tk.price, orderType |-> "limit"]

RECURSIVE totalValue(_), totalSize(_)
\* twap.ts 188-198: the two sums over the filled orders
totalValue(os) ==
    IF os = <<>> THEN 0
    ELSE Head(os).filledSize * Head(os).averagePrice + totalValue(Tail(os))
totalSize(os) ==
    IF os = <<>> THEN 0 ELSE Head(os).filledSize + totalSize(Tail(os))

\* the filter of updateAverageExecutionPrice without its test of the status
isFilledOrder_anyStatus(o) ==
    o.filledSize # Absent /\ o.averagePrice # Absent

\* twap.ts 180-182
isFilledOrder(o) ==
    o.status = "filled" /\ o.filledSize # Absent /\ o.averagePrice # Absent

filledOrders(os) == SelectSeq(os, isFilledOrder)

\* updateAverageExecutionPrice(), twap.ts 179-204
updateAverageExecutionPrice(st) ==
    IF filledOrders(st.orders) = <<>> THEN st
    ELSE IF totalSize(filledOrders(st.orders)) > 0
    THEN [st EXCEPT !.averageExecutionPrice =
            RoundDiv(totalValue(filledOrders(st.orders)),
                     totalSize(filledOrders(st.orders)))]
    ELSE st

\* twap.ts 146-149: the record built from the tick's locals and the response
orderExecution(tk, response) ==
    [orderId |-> response.orderId,
     size |-> tk.orderSize,
     price |-> tk.price,
     status |-> IF response.status = "filled" THEN "filled" ELSE "pending",
     filledSize |-> response.filledSize,
     averagePrice |-> response.averagePrice]

\* twap.ts 154-162: the amount folded into the run
foldedAmount(tk, response) ==
    IF response.filledSize # Absent THEN response.filledSize ELSE tk.orderSize

\* twap.ts 156-157, 160-161: the remaining amount after the fold
remainingAfter(tk, amount) == tk.remainingFloat - amount

\* twap.ts 152: this.state.orders.push(o).  The array is one object: a snapshot
\* whose orders field is that same array shows the new element too.
push(m, o) ==
    [m EXCEPT !.state.orders = Append(@, o),
              !.snapshot.state.orders = IF m.snapshot.aliased THEN Append(@, o) ELSE @]

\* twap.ts 146-168: the continuation after `await placeOrder` returned `response`
foldResponse(m, tk, response) ==
    LET m1 == push(m, orderExecution(tk, response)) IN
    log(log(
      [m1 EXCEPT !.state = updateAverageExecutionPrice(
          [m1.state EXCEPT
             !.executedAmount = @ + foldedAmount(tk, response),
             !.remainingAmount = remainingAfter(tk, foldedAmount(tk, response))])],
      "Order placed"), "TWAP Progress")

\* the messages of the errors placeOrder may reject with (callBluefinAPI,
\* part_000 318-321): one that stays retryable until the attempts run out,
\* one that is not retryable
VenueErrors == { "Bluefin API error: 503", "Bluefin API error: 400 insufficient balance" }

\* what the venue may answer to the order of tick tk (BluefinOrderResponse)
Responses(tk) ==
    { [orderId |-> tk.orderId, status |-> "filled",
       filledSize |-> tk.orderSize, averagePrice |-> tk.price],
      [orderId |-> tk.orderId, status |-> "partial",
       filledSize |-> tk.orderSize \div 2, averagePrice |-> tk.price],
      [orderId |-> tk.orderId, status |-> "pending",
       filledSize |-> Absent, averagePrice |-> Absent] }

----------------------------------------------------------------------------
(* Actions: one per turn of the event loop *)

Init ==
    /\ config \in { c \in Configs : validateTWAPConfig(c) }
    /\ now = 0
    /\ isRunning = FALSE
    /\ state = initializeState(config, now)
    /\ intervalTimer = 0
    /\ timers = [i \in TimerIds |-> Off]
    /\ ticks = EmptyBag
    /\ nextOrderId = 0
    /\ everStarted = FALSE
    /\ out = <<>>
    /\ report = <<>>
    /\ snapshot = NoSnapshot(config)
    /\ call = NoCall
    /\ monitorInterval = "unset"

\* everything of the engine but the log of the last step
engineVars == <<config, now, isRunning, state, intervalTimer, timers, ticks,
                nextOrderId, everStarted>>

\* a caller invokes start()
Start ==
    /\ Commit(start(log(Engine, "start()")))
    /\ UNCHANGED <<config, now>>

\* a caller invokes stop()
Stop ==
    /\ Commit(stop(log(Engine, "stop()")))
    /\ UNCHANGED <<config, now>>

\* a due setInterval timer runs its callback, twap.ts 229-231
TimerFire(id) ==
    /\ timers[id] # Off
    /\ now >= timers[id]
    /\ Commit(executeOrder(
         [Engine EXCEPT !.timers[id] = @ + config.interval * MsPerSecond], FALSE))
    /\ UNCHANGED <<config, now>>

\* getMarketPrice resolves with price p: twap.ts 120-143, up to `await placeOrder`
PriceOk(tk, p) ==
    /\ BagIn(tk, ticks)
    /\ tk.pc = "price"
    /\ nextOrderId < MaxOrders
    /\ Commit(log(
         [resume(Engine, tk, {[tk EXCEPT !.pc = "place",
                                         !.price = slippageAdjustedPrice(config, p),
                                         !.orderId = nextOrderId + 1,
                                         !.lateOrder = tk.stale \/ ~isRunning]})
            EXCEPT !.nextOrderId = @ + 1],
         "Executing TWAP order"))
    /\ UNCHANGED <<config, now>>

\* a rejected price fetch ending the run instead of only the tick
PriceFail_halts(tk) ==
    /\ BagIn(tk, ticks)
    /\ tk.pc = "price"
    /\ Commit(stop(log(log(resume(Engine, tk, {}),
                           "Failed to get market price"), "Failed to execute TWAP order")))
    /\ UNCHANGED <<config, now>>

\* getMarketPrice rejects: twap.ts 75-77, 170-173
PriceFail(tk) ==
    /\ BagIn(tk, ticks)
    /\ tk.pc = "price"
    /\ Commit(startResume(
         log(log(resume(Engine, tk, {}),
                 "Failed to get market price"), "Failed to execute TWAP order"),
         tk.starter))
    /\ UNCHANGED <<config, now>>

\* placeOrder resolves: twap.ts 143-168
PlaceOk(tk, response) ==
    /\ BagIn(tk, ticks)
    /\ tk.pc = "place"
    /\ Commit(startResume(
         foldResponse(resume(Engine, tk, {}), tk, response),
         tk.starter))
    /\ UNCHANGED <<config, now>>

\* the catch block of executeOrder() ending the run instead of continuing
PlaceFail_halts(tk, error) ==
    /\ BagIn(tk, ticks)
    /\ tk.pc = "place"
    /\ Commit(stop(log(log(resume(Engine, tk, {}),
                           "Failed to execute TWAP order"), error)))
    /\ UNCHANGED <<config, now>>

\* placeOrder rejects with `error`: twap.ts 170-173 logs the message and returns
PlaceFail(tk, error) ==
    /\ BagIn(tk, ticks)
    /\ tk.pc = "place"
    /\ Commit(startResume(
         log(log(resume(Engine, tk, {}), "Failed to execute TWAP order"), error),
         tk.starter))
    /\ UNCHANGED <<config, now>>

\* a reader calls getState() and keeps what it returns
GetState ==
    /\ out' = <<"getState()">>
    /\ report' = <<>>
    /\ snapshot' = getState(state)
    /\ UNCHANGED <<engineVars, call, monitorInterval>>

\* the reader assigns a scalar field of its snapshot: snap.remainingAmount = '0'
ReaderSetsField ==
    /\ snapshot.taken
    /\ snapshot.state.remainingAmount # 0
    /\ out' = <<>>
    /\ report' = <<>>
    /\ snapshot' = [snapshot EXCEPT !.state.remainingAmount = 0]
    /\ UNCHANGED <<engineVars, call, monitorInterval>>

\* the reader empties the orders list of its snapshot: snap.orders.length = 0
ReaderClearsOrders ==
    /\ snapshot.taken
    /\ snapshot.state.orders # <<>>
    /\ out' = <<>>
    /\ report' = <<>>
    /\ snapshot' = [snapshot EXCEPT !.state.orders = <<>>]
    /\ state' = IF snapshot.aliased THEN [state EXCEPT !.orders = <<>>] ELSE state
    /\ UNCHANGED <<config, now, isRunning, intervalTimer, timers, ticks,
                   nextOrderId, everStarted, call, monitorInterval>>

\* the wall clock advances by one second; a due timer runs before the clock moves on
ClockStep ==
    /\ \A id \in TimerIds : timers[id] = Off \/ now < timers[id]
    /\ now' = now + MsPerSecond
    /\ out' = <<>>
    /\ report' = <<>>
    /\ UNCHANGED <<config, isRunning, state, intervalTimer, timers, ticks,
                   nextOrderId, everStarted, snapshot, call, monitorInterval>>

\* time passes, up to the horizon of the model
AdvanceClock ==
    /\ now < MaxTime * MsPerSecond
    /\ ClockStep

Next ==
    \/ Start
    \/ Stop
    \/ \E id \in TimerIds : TimerFire(id)
    \/ \E tk \in BagToSet(ticks) : \E p \in MarketPrices : PriceOk(tk, p)
    \/ \E tk \in BagToSet(ticks) : PriceFail(tk)
    \/ \E tk \in BagToSet(ticks) : \E response \in Responses(tk) : PlaceOk(tk, response)
    \/ \E tk \in BagToSet(ticks) : \E error \in VenueErrors : PlaceFail(tk, error)
    \/ AdvanceClock

Spec == Init /\ [][Next]_vars

----------------------------------------------------------------------------
(* The unattended bot: bot.ts calls start() once (bot.ts 159) and nobody    *)
(* calls stop().  The timer keeps firing, the clock keeps advancing while a *)
(* run has its timer armed, and every gateway call eventually returns.      *)

StartOnce ==
    /\ ~everStarted
    /\ Start

AdvanceClockAuto ==
    /\ now < MaxTime * MsPerSecond \/ (isRunning /\ intervalTimer # 0)
    /\ ClockStep

GatewayReturns ==
    \/ \E tk \in BagToSet(ticks) : \E p \in MarketPrices : PriceOk(tk, p)
    \/ \E tk \in BagToSet(ticks) : PriceFail(tk)
    \/ \E tk \in BagToSet(ticks) : \E response \in Responses(tk) : PlaceOk(tk, response)
    \/ \E tk \in BagToSet(ticks) : \E error \in VenueErrors : PlaceFail(tk, error)

NextAuto ==
    \/ StartOnce
    \/ \E id \in TimerIds : TimerFire(id)
    \/ \E tk \in BagToSet(ticks) : \E p \in MarketPrices : PriceOk(tk, p)
    \/ \E tk \in BagToSet(ticks) : PriceFail(tk)
    \/ \E tk \in BagToSet(ticks) : \E response \in Responses(tk) : PlaceOk(tk, response)
    \/ \E tk \in BagToSet(ticks) : \E error \in VenueErrors : PlaceFail(tk, error)
    \/ AdvanceClockAuto

SpecAuto ==
    /\ Init
    /\ [][NextAuto]_vars
    /\ WF_vars(AdvanceClockAuto)
    /\ \A id \in TimerIds : WF_vars(TimerFire(id))
    /\ WF_vars(GatewayReturns)

----------------------------------------------------------------------------
(* The unattended bot under configurations that exercise the sizing rules   *)
(* of executeOrder() (twap.ts 103-116).                                     *)

SizingConfigs ==
    { Cfg(20000, 3, 1, 15000, 20000, 1),     \* nominal size 0.00015 of a total of 0.0002
      Cfg(5000, 2, 2, 2000, 20000, 1),       \* total and minOrderSize below the negligible threshold
      Cfg(30000, 2, 1, 5000, 10000, 1),      \* raw size 0.00015 clamped to the maximum 0.0001
      Cfg(50000, 2, 1, 100000, 200000, 1) }  \* total half of minOrderSize, above the negligible threshold

InitSizing ==
    /\ config \in { c \in SizingConfigs : validateTWAPConfig(c) }
    /\ now = 0
    /\ isRunning = FALSE
    /\ state = initializeState(config, now)
    /\ intervalTimer = 0
    /\ timers = [i \in TimerIds |-> Off]
    /\ ticks = EmptyBag
    /\ nextOrderId = 0
    /\ everStarted = FALSE
    /\ out = <<>>
    /\ report = <<>>
    /\ snapshot = NoSnapshot(config)
    /\ call = NoCall
    /\ monitorInterval = "unset"

SpecSizing ==
    /\ InitSizing
    /\ [][NextAuto]_vars
    /\ WF_vars(AdvanceClockAuto)
    /\ \A id \in TimerIds : WF_vars(TimerFire(id))
    /\ WF_vars(GatewayReturns)

----------------------------------------------------------------------------
(* The unattended bot with a venue whose prices move and whose answers to   *)
(* an order cover what BluefinOrderResponse allows (part_000 39-44): the     *)
(* status is any string, filledSize and averagePrice are optional.          *)

FillConfigs ==
    { Cfg(50000, 3, 1, 30000, 30000, 1),     \* an order of 0.0003, then a top-up of 0.0002
      Cfg(20000, 2, 1, 10000, 20000, 0),     \* slippageTolerance 0
      Cfg(20000, 2, 1, 10000, 20000, 100) }  \* slippageTolerance 1

\* 0.000002, 0.000003004 and 0.000000014: the last two have a ninth fractional digit
FillPrices == { 2000, 3004, 14 }

FillResponses(tk) ==
    Responses(tk) \cup
    { [orderId |-> tk.orderId, status |-> "filled",
       filledSize |-> tk.orderSize, averagePrice |-> Absent],
      [orderId |-> tk.orderId, status |-> "failed",
       filledSize |-> Absent, averagePrice |-> Absent],
      [orderId |-> tk.orderId, status |-> "filled",
       filledSize |-> 2 * tk.orderSize, averagePrice |-> tk.price] }

InitFill ==
    /\ config \in { c \in FillConfigs : validateTWAPConfig(c) }
    /\ now = 0
    /\ isRunning = FALSE
    /\ state = initializeState(config, now)
    /\ intervalTimer = 0
    /\ timers = [i \in TimerIds |-> Off]
    /\ ticks = EmptyBag
    /\ nextOrderId = 0
    /\ everStarted = FALSE
    /\ out = <<>>
    /\ report = <<>>
    /\ snapshot = NoSnapshot(config)
    /\ call = NoCall
    /\ monitorInterval = "unset"

NextFill ==
    \/ StartOnce
    \/ \E id \in TimerIds : TimerFire(id)
    \/ \E tk \in BagToSet(ticks) : \E p \in FillPrices : PriceOk(tk, p)
    \/ \E tk \in BagToSet(ticks) : PriceFail(tk)
    \/ \E tk \in BagToSet(ticks) : \E response \in FillResponses(tk) : PlaceOk(tk, response)
    \/ \E tk \in BagToSet(ticks) : \E error \in VenueErrors : PlaceFail(tk, error)
    \/ AdvanceClockAuto

SpecFill == InitFill /\ [][NextFill]_vars

----------------------------------------------------------------------------
(* The engine under callers that start and stop it at any time, built with  *)
(* a configuration whose floor(duration / interval) is 0: validation lets   *)
(* it through when duration and interval are quoted (part_000 104).         *)

FailedStartConfigs ==
    { Cfg(20000, 1, 1, 20000, 20000, 1),     \* one order of the whole amount
      [Cfg(20000, 2, 10, 10000, 20000, 1) EXCEPT !.timeKind = "string"] }

InitFailedStart ==
    /\ config \in { c \in FailedStartConfigs : validateTWAPConfig(c) }
    /\ now = 0
    /\ isRunning = FALSE
    /\ state = initializeState(config, now)
    /\ intervalTimer = 0
    /\ timers = [i \in TimerIds |-> Off]
    /\ ticks = EmptyBag
    /\ nextOrderId = 0
    /\ everStarted = FALSE
    /\ out = <<>>
    /\ report = <<>>
    /\ snapshot = NoSnapshot(config)
    /\ call = NoCall
    /\ monitorInterval = "unset"

SpecFailedStart == InitFailedStart /\ [][Next]_vars

----------------------------------------------------------------------------
(* The unattended bot with a reader of getState() (bot.ts 166-181 polls it) *)

NextReader ==
    \/ StartOnce
    \/ \E id \in TimerIds : TimerFire(id)
    \/ \E tk \in BagToSet(ticks) : \E p \in MarketPrices : PriceOk(tk, p)
    \/ \E tk \in BagToSet(ticks) : PriceFail(tk)
    \/ \E tk \in BagToSet(ticks) : \E response \in Responses(tk) : PlaceOk(tk, response)
    \/ \E tk \in BagToSet(ticks) : \E error \in VenueErrors : PlaceFail(tk, error)
    \/ AdvanceClockAuto
    \/ GetState
    \/ ReaderSetsField
    \/ ReaderClearsOrders

SpecReader ==
    /\ Init
    /\ [][NextReader]_vars
    /\ WF_vars(AdvanceClockAuto)
    /\ \A id \in TimerIds : WF_vars(TimerFire(id))
    /\ WF_vars(GatewayReturns)

----------------------------------------------------------------------------
(* One gateway operation at a time going through executeWithRetry.          *)
(* call.errors (the error of every failed attempt) and call.sleeps (the     *)
(* delays slept) record what the loop did.                                  *)

\* an operation enters executeWithRetry: part_000 256-258
CallGateway(op) ==
    /\ call.pc \in { "idle", "returned", "thrown" }
    /\ call' = [NoCall EXCEPT !.pc = "attempt", !.op = op]
    /\ UNCHANGED <<engineVars, out, report, snapshot, monitorInterval>>

\* `return await fn()` succeeds: part_000 260
AttemptOk ==
    /\ call.pc = "attempt"
    /\ call' = [call EXCEPT !.pc = "returned"]
    /\ UNCHANGED <<engineVars, out, report, snapshot, monitorInterval>>

\* fn() throws `error`: part_000 261-272
AttemptFail(error) ==
    /\ call.pc = "attempt"
    /\ call' =
         IF ~isRetryableError(error) \/ call.attempt = maxRetries - 1
         THEN [call EXCEPT !.lastError = error,
                           !.errors = Append(@, error),
                           !.pc = "thrown",
                           !.thrown = error]
         ELSE [call EXCEPT !.lastError = error,
                           !.errors = Append(@, error),
                           !.pc = "sleeping",
                           !.sleeps = Append(@, backoff(call.attempt))]
    /\ UNCHANGED <<engineVars, out, report, snapshot, monitorInterval>>

\* the sleep ends and the loop goes to its next iteration: part_000 259, 266
Wake ==
    /\ call.pc = "sleeping"
    /\ call' = [call EXCEPT !.attempt = @ + 1,
                            !.pc = IF call.attempt + 1 < maxRetries THEN "attempt" ELSE "thrown",
                            !.thrown = IF call.attempt + 1 < maxRetries THEN @ ELSE call.lastError]
    /\ UNCHANGED <<engineVars, out, report, snapshot, monitorInterval>>

NextRetry ==
    \/ \E op \in GatewayOps : CallGateway(op)
    \/ AttemptOk
    \/ \E error \in ErrorMessages : AttemptFail(error)
    \/ Wake

SpecRetry == Init /\ [][NextRetry]_vars

\* the attempts made so far by the operation in progress
attemptsMade ==
    Len(call.errors) + (IF call.pc = "returned" THEN 1 ELSE 0)

----------------------------------------------------------------------------
(* Start-up of the bot (bot.ts 16-52): loadConfig() parses config.json and  *)
(* validates it; on an error the constructor logs and exits, otherwise it   *)
(* builds the engine.                                                       *)

\* what config.json may hold, valid or not
CandidateConfigs ==
    { [pair |-> p, totalAmount |-> total, duration |-> dur, interval |-> int,
       minOrderSize |-> mn, maxOrderSize |-> mx,
       slipKind |-> sk, slipNum |-> sn, slipDen |-> 100, timeKind |-> tk] :
        p \in { "SUI/USDC", "" },
        total \in { 0, 20000 },
        dur \in { 0, 2, 3 },
        int \in { 0, 1, 2, 3, 10 },
        tk \in { "number", "string" },
        mn \in { 0, 10000, 30000 },
        mx \in { 0, 20000 },
        sk \in { "number", "undefined" },
        sn \in { -1, 0, 1, 100, 101 } }

InitConfig ==
    /\ config \in { c \in CandidateConfigs : c.slipKind = "undefined" => c.slipNum = 0 }
    /\ now = 0
    /\ isRunning = FALSE
    /\ state = initializeState(config, now)
    /\ intervalTimer = 0
    /\ timers = [i \in TimerIds |-> Off]
    /\ ticks = EmptyBag
    /\ nextOrderId = 0
    /\ everStarted = FALSE
    /\ out = <<>>
    /\ report = <<>>
    /\ snapshot = NoSnapshot(config)
    /\ call = NoCall
    /\ monitorInterval = "unset"

\* bot.ts 20-50
LoadConfig ==
    /\ out = <<>>
    /\ out' = IF validateTWAPConfig(config)
              THEN <<"Configuration loaded successfully", "TWAP strategy initialized">>
              ELSE <<"Failed to initialize bot">>
    /\ UNCHANGED <<engineVars, report, snapshot, call, monitorInterval>>

SpecConfig == InitConfig /\ [][LoadConfig]_vars

----------------------------------------------------------------------------
(* The host (bot.ts 150-183): BuybackBot.start() calls the engine's start() *)
(* once and, when that has returned, arms a monitor that polls getState()   *)
(* and isActive().  The monitor's period is not tied to the engine's clock: *)
(* a poll may run at any time while the monitor is armed.                   *)

Digit(d) == <<"0", "1", "2", "3", "4", "5", "6", "7", "8", "9">>[d + 1]

RECURSIVE fraction(_, _)
\* the last k decimal digits of n, as characters
fraction(n, k) == IF k = 0 THEN <<>> ELSE Append(fraction(n \div 10, k - 1), Digit(n % 10))

\* Number.prototype.toFixed(8) of an amount (twap.ts 156-161), as its characters
toFixed(v) ==
    LET abs == IF v < 0 THEN 0 - v ELSE v
        whole == decimal(abs \div Unit)
    IN  (IF v < 0 THEN <<"-">> ELSE <<>>)
        \o [i \in 1..Len(whole) |-> Digit(whole[i])]
        \o <<".">>
        \o fraction(abs % Unit, FractionDigits)

\* state.remainingAmount as the string a reader sees: config.totalAmount until
\* the first fold (twap.ts 24; a positive amount, rendered here like the
\* others), a toFixed(8) rendering afterwards
remainingAmountText(st) == toFixed(st.remainingAmount)

\* bot.ts 161-175: BuybackBot.start() resumes after `await this.twapStrategy.start()`
BotResume ==
    /\ monitorInterval = "unset"
    /\ everStarted
    /\ \A tk \in BagToSet(ticks) : ~tk.starter
    /\ monitorInterval' = "armed"
    /\ out' = <<"Bot is running. Press Ctrl+C to stop.">>
    /\ report' = <<>>
    /\ UNCHANGED <<engineVars, snapshot, call>>

\* bot.ts 166-173: one run of the monitor's callback
MonitorPoll ==
    /\ monitorInterval = "armed"
    /\ snapshot' = getState(state)
    /\ report' = <<>>
    /\ IF ~isActive /\ remainingAmountText(state) = <<"0">>
       THEN /\ out' = <<"TWAP execution completed successfully">>
            /\ monitorInterval' = "cleared"
       ELSE /\ out' = <<>>
            /\ monitorInterval' = monitorInterval
    /\ UNCHANGED <<engineVars, call>>

NextMonitor ==
    \/ StartOnce
    \/ \E id \in TimerIds : TimerFire(id)
    \/ \E tk \in BagToSet(ticks) : \E p \in MarketPrices : PriceOk(tk, p)
    \/ \E tk \in BagToSet(ticks) : PriceFail(tk)
    \/ \E tk \in BagToSet(ticks) : \E response \in Responses(tk) : PlaceOk(tk, response)
    \/ \E tk \in BagToSet(ticks) : \E error \in VenueErrors : PlaceFail(tk, error)
    \/ AdvanceClockAuto
    \/ BotResume
    \/ MonitorPoll

SpecMonitor == Init /\ [][NextMonitor]_vars

----------------------------------------------------------------------------
(* Vocabulary of the properties *)

Logged(msg) == \E i \in DOMAIN out : out[i] = msg

\* the lifecycle state of spec section 4.1, read off the engine's fields
Lifecycle ==
    IF isRunning THEN "Running" ELSE IF everStarted THEN "Stopped" ELSE "Idle"

\* the RunState fields a freshly initialised run must show at time t
FreshRunState(st, t) ==
    /\ st.totalAmount = config.totalAmount
    /\ st.remainingAmount = config.totalAmount
    /\ st.executedAmount = 0
    /\ st.orders = <<>>
    /\ st.averageExecutionPrice = Absent
    /\ st.startTime = t
    /\ st.endTime = t + config.duration * MsPerSecond

\* the messages of ErrorMessages that name a transient failure
TransientErrors ==
    { <<"Bluefin API error:", "503">>,
      <<"Bluefin API error:", "502">>,
      <<"Bluefin API error:", "500">>,
      <<"Bluefin API error:", "429", "rate limit">>,
      <<"Network", "timeout">>,
      <<"read", "ECONNRESET">>,
      <<"connect", "ETIMEDOUT">>,
      <<"getaddrinfo", "ENOTFOUND">> }

\* a TWAP configuration that meets every constraint of the specification
ValidConfig(c) ==
    /\ c.pair # ""
    /\ c.totalAmount > 0
    /\ c.duration > 0
    /\ c.interval > 0
    /\ c.interval <= c.duration
    /\ c.slipKind = "number" /\ 0 <= c.slipNum /\ c.slipNum <= c.slipDen
    /\ c.minOrderSize > 0
    /\ c.maxOrderSize > 0
    /\ c.minOrderSize <= c.maxOrderSize

\* v is the quotient total / n to the nearest 10^-8
NearestQuotient(v, total, n) ==
    /\ 2 * (v * n - total) <= n
    /\ 2 * (total - v * n) <= n

\* a timer tick begins while Running with something left and time left
TickProceeds(id) ==
    /\ TimerFire(id)
    /\ isRunning
    /\ state.remainingAmount > 0
    /\ now < state.endTime

\* the final top-up of executeOrder(): sub-minimum orders are submitted
\* exactly when more than 0.0001 remains, with the whole remainder as size
FinalTopUp ==
    /\ \A id \in TimerIds :
         (/\ TickProceeds(id)
          /\ Min(calculateOrderSize(config), state.remainingAmount) < config.minOrderSize
          /\ state.remainingAmount > Negligible)
         => /\ isRunning'
            /\ \E tk \in BagToSet(ticks') :
                 /\ tk.pc = "price"
                 /\ tk.orderSize = state.remainingAmount
                 /\ ~BagIn(tk, ticks) \/ CopiesIn(tk, ticks') > CopiesIn(tk, ticks)
    /\ \A tk \in BagToSet(ticks) : \A p \in MarketPrices :
         (PriceOk(tk, p) /\ tk.orderSize < config.minOrderSize)
         => /\ tk.remainingFloat > Negligible
            /\ tk.orderSize = tk.remainingFloat
            /\ \E t2 \in BagToSet(ticks') : t2.pc = "place" /\ t2.orderSize = tk.orderSize

\* the step takes the engine from Running to Stopped
BecomesStopped ==
    \/ isRunning /\ ~isRunning'
    \/ Start /\ ~isRunning /\ ~isRunning'

----------------------------------------------------------------------------
(* C1: in every reachable state executedAmount + remainingAmount equals     *)
(* totalAmount (all three are 8-digit decimals, so the sum is exact).       *)
C1_AmountsBalance ==
    state.executedAmount + state.remainingAmount = state.totalAmount

(* C2: ticks of one engine never overlap: at most one executeOrder()        *)
(* invocation is between its start and the end of its gateway cycle.        *)
C2_TicksSerialized == InFlight(ticks) <= 1

(* C3: RunState is frozen once the engine is Stopped: the step in which a   *)
(* placeOrder call returns to a tick of a stopped engine leaves state as it *)
(* was.                                                                     *)
C3_FrozenOnceStopped ==
    [][\A tk \in BagToSet(ticks) : \A response \in Responses(tk) :
         (PlaceOk(tk, response) /\ ~isRunning) => state' = state]_vars

(* C4: after stop() the engine places no new order: a tick submits its      *)
(* order (passes from awaiting the price to awaiting placeOrder) only while *)
(* the run it began in is still Running.                                    *)
C4_NoOrderAfterStop ==
    [][\A tk \in BagToSet(ticks) : \A p \in MarketPrices :
         PriceOk(tk, p) => (isRunning /\ ~tk.stale)]_vars

(* C5: every run of the unattended bot eventually reaches Stopped by        *)
(* itself, whatever the gateway answers or fails with.                      *)
C5_RunEventuallyStops == isRunning ~> ~isRunning

C5_Witness ==
    /\ Lifecycle = "Stopped"
    /\ Logged("TWAP execution complete: duration exceeded")
    /\ state.remainingAmount > 0

(* C6: a timer tick that begins while the engine is Running with            *)
(* remainingAmount <= 0 or with now >= endTime stops the engine, calls no   *)
(* gateway operation (no invocation is suspended, the venue receives        *)
(* nothing) and appends nothing to orders.                                  *)
C6_CompletedTickStops ==
    [][\A id \in TimerIds :
         (TimerFire(id) /\ isRunning
            /\ (state.remainingAmount <= 0 \/ now >= state.endTime))
         => /\ ~isRunning'
            /\ ticks' = ticks
            /\ nextOrderId' = nextOrderId
            /\ state'.orders = state.orders
            /\ ~Logged("Executing TWAP order")']_vars

C6_Witness ==
    /\ ~isRunning
    /\ Logged("TWAP execution complete: no remaining amount")
    /\ state.remainingAmount <= 0
    /\ InFlight(ticks) = 0

(* C7 as claimed: start() from Idle or Stopped leaves the engine Running    *)
(* with a freshly initialised RunState.                                     *)
C7_StartEntersRunning ==
    [][(Start /\ ~isRunning) => (isRunning' /\ FreshRunState(state', now))]_vars

(* C7 as amended: start() from Idle or Stopped initialises a fresh RunState *)
(* and the engine is Running when the call reaches its first await, unless  *)
(* totalAmount is too small to execute (at most 0.0001 and below            *)
(* minOrderSize): then the immediate first tick has stopped the engine and  *)
(* no invocation is suspended.                                              *)
C7_StartInitialisesRun ==
    [][(Start /\ ~isRunning)
       => /\ FreshRunState(state', now)
          /\ everStarted'
          /\ IF config.totalAmount <= Negligible
                /\ config.totalAmount < config.minOrderSize
             THEN ~isRunning' /\ InFlight(ticks') = InFlight(ticks)
             ELSE isRunning']_vars

C7_Witness ==
    /\ Logged("Starting TWAP execution")
    /\ isRunning
    /\ state.startTime > 0
    /\ FreshRunState(state, now)
    /\ \E tk \in BagToSet(ticks) : tk.stale

(* C8: start() called while the engine is Running changes nothing: RunState *)
(* is kept, no tick is executed, no order is submitted and no timer armed.  *)
C8_StartWhileRunningNoOp ==
    [][(Start /\ isRunning) => UNCHANGED engineVars]_vars

C8_Witness ==
    /\ Logged("TWAP strategy is already running")
    /\ isRunning
    /\ state.orders # <<>>

(* C9: stop() called while the engine is not Running changes no state and   *)
(* emits no summary.                                                        *)
C9_StopIdempotent ==
    [][(Stop /\ ~isRunning)
       => (UNCHANGED engineVars /\ out' = <<"stop()">>)]_vars

C9_Witness ==
    /\ out = <<"stop()">>
    /\ Lifecycle = "Stopped"
    /\ intervalTimer # 0

(* C10: the lifecycle is Idle -> Running -> Stopped: Idle is initial and    *)
(* never re-entered, Running is entered only by start(), Running is left    *)
(* only by stop() (called by the user or by a tick that stops itself) and   *)
(* only to Stopped, and isActive() is true exactly in Running.              *)
C10_Lifecycle ==
    /\ Lifecycle = "Idle"
    /\ [][/\ (Lifecycle # "Running" /\ Lifecycle' = "Running")
             => Logged("start()")'
          /\ (Lifecycle = "Running" /\ Lifecycle' # "Running")
             => (Lifecycle' = "Stopped" /\ Logged("TWAP execution stopped")')
          /\ Logged("TWAP execution stopped")' => Lifecycle' = "Stopped"
          /\ Lifecycle # Lifecycle'
             => (Logged("start()")' \/ Logged("TWAP execution stopped")')
          /\ Lifecycle' = "Idle" => Lifecycle = "Idle"
          /\ isActive' <=> (Lifecycle' = "Running")]_vars

C10_Witness ==
    /\ Lifecycle = "Running"
    /\ Logged("start()")
    /\ state.startTime > 0
    /\ state.orders = <<>>
    /\ nextOrderId > 0

C12_InsufficientBalanceStops ==
    [][\A tk \in BagToSet(ticks) :
         (PlaceFail(tk, "Bluefin API error: 400 insufficient balance") /\ isRunning)
         => ~isRunning']_vars

(* C13: a price-fetch failure aborts only the current tick: the step in    *)
(* which getMarketPrice rejects submits no order (the venue's order count   *)
(* is unchanged and the invocation is gone, not waiting on placeOrder),     *)
(* leaves RunState and isRunning as they were and disarms no timer; if the  *)
(* tick was the first one awaited by start(), start() arms the timer.       *)
C13_PriceFailureAbortsTick ==
    [][\A tk \in BagToSet(ticks) :
         PriceFail(tk)
         => /\ isRunning' = isRunning
            /\ state' = state
            /\ nextOrderId' = nextOrderId
            /\ ticks' = ticks (-) SetToBag({tk})
            /\ ~Logged("Executing TWAP order")'
            /\ \A id \in TimerIds : timers[id] # Off => timers'[id] = timers[id]
            /\ IF tk.starter
               THEN /\ intervalTimer' # 0
                    /\ timers'[intervalTimer'] = now + config.interval * MsPerSecond
               ELSE /\ intervalTimer' = intervalTimer
                    /\ timers' = timers]_vars

C13_Witness ==
    /\ out = <<"Failed to get market price", "Failed to execute TWAP order">>
    /\ isRunning
    /\ now > state.startTime
    /\ intervalTimer # 0
    /\ timers[intervalTimer] # Off
    /\ InFlight(ticks) = 0
    /\ Len(state.orders) = 1
    /\ state.remainingAmount > 0

(* C14: every order is submitted with the size min(nominalSize,            *)
(* remainingAmount) of the moment of its submission, so never with more     *)
(* than the run has remaining.                                              *)
C14_SubmittedSizeIsMin ==
    [][\A tk \in BagToSet(ticks) : \A p \in MarketPrices :
         PriceOk(tk, p)
         => tk.orderSize = Min(calculateOrderSize(config), state.remainingAmount)]_vars

(* C15: a tick that starts while the engine is Running with                 *)
(* 0 < remainingAmount < 0.0001 (a timer tick, or the first tick inside     *)
(* start() when totalAmount is that small) stops the engine and suspends no *)
(* invocation, so placeOrder is not called, whatever the valid config.      *)
C15_NegligibleRemainderStops ==
    [][(\/ \E id \in TimerIds :
            /\ TimerFire(id)
            /\ isRunning
            /\ 0 < state.remainingAmount /\ state.remainingAmount < Negligible
        \/ /\ Start
           /\ ~isRunning
           /\ 0 < config.totalAmount /\ config.totalAmount < Negligible)
       => (~isRunning' /\ InFlight(ticks') = InFlight(ticks))]_vars

(* C16: every transition to Stopped, whatever caused it, emits exactly one  *)
(* execution summary, and the summary shows the total, filled and pending   *)
(* order counts and the executed and remaining amounts RunState has at that *)
(* moment; a step that is not such a transition emits none.  (A start()    *)
(* whose first tick stops the engine at once enters and leaves Running in   *)
(* one step.)                                                               *)
C16_SummaryOnEveryStop ==
    [][/\ BecomesStopped
          => /\ Len(report') = 1
             /\ report'[1].totalOrders = Len(state'.orders)
             /\ report'[1].filledOrders
                  = Cardinality({ i \in DOMAIN state'.orders : state'.orders[i].status = "filled" })
             /\ report'[1].pendingOrders
                  = Cardinality({ i \in DOMAIN state'.orders : state'.orders[i].status = "pending" })
             /\ report'[1].totalExecuted = state'.executedAmount
             /\ report'[1].remaining = state'.remainingAmount
       /\ ~BecomesStopped => report' = <<>>]_vars

C16_Witness ==
    /\ Lifecycle = "Stopped"
    /\ Logged("TWAP execution complete: no remaining amount")
    /\ Len(report) = 1
    /\ report[1].totalOrders = 2
    /\ report[1].filledOrders = 1
    /\ report[1].pendingOrders = 1
    /\ report[1].remaining = 0

(* C17: within a run orders is append-only and ordered by submission: a    *)
(* step that does not initialise a new run keeps every existing entry in    *)
(* its place, and an order the venue received earlier (lower orderId)       *)
(* stands before an order it received later.                                *)
C17_OrdersBySubmission ==
    [][/\ ~Logged("Starting TWAP execution")'
          => /\ Len(state'.orders) >= Len(state.orders)
             /\ SubSeq(state'.orders, 1, Len(state.orders)) = state.orders
       /\ \A i, j \in DOMAIN state'.orders :
            i < j => state'.orders[i].orderId < state'.orders[j].orderId]_vars

(* C18: getState() returns a snapshot isolated from the engine: a step of  *)
(* the engine leaves a snapshot already handed out as it is, and a change   *)
(* the reader makes to its snapshot leaves the engine's RunState as it is.  *)
C18_SnapshotIsolated ==
    [][/\ (snapshot.taken /\ ~GetState /\ ~ReaderSetsField /\ ~ReaderClearsOrders)
          => snapshot' = snapshot
       /\ (ReaderSetsField \/ ReaderClearsOrders) => state' = state]_vars

(* C19: every gateway operation makes at most 3 attempts; it sleeps 1000 ms *)
(* before the second attempt and 2000 ms before the third and does not      *)
(* sleep after its last attempt; when the third attempt fails, the error of *)
(* that attempt is what the caller receives.                                *)
C19_BoundedRetry ==
    /\ attemptsMade <= 3
    /\ Len(call.sleeps) <= 2
    /\ Len(call.sleeps) >= 1 => call.sleeps[1] = 1000
    /\ Len(call.sleeps) >= 2 => call.sleeps[2] = 2000
    /\ call.pc = "attempt" => Len(call.sleeps) = attemptsMade
    /\ call.pc \in { "returned", "thrown" } => Len(call.sleeps) = attemptsMade - 1
    /\ (call.pc = "thrown" /\ attemptsMade = 3) => call.thrown = call.errors[3]
    /\ Len(call.errors) = 3 => call.pc = "thrown"

C19_Witness ==
    /\ call.pc = "thrown"
    /\ call.op = "getMarketPrice"
    /\ attemptsMade = 3
    /\ call.sleeps = <<1000, 2000>>
    /\ call.errors[1] # call.errors[3]
    /\ call.errors[2] # call.errors[3]

(* C20: a gateway operation that fails with a retryable error (one naming   *)
(* a network error, a timeout, a connection reset or a 5xx status) on its   *)
(* first or on its first two attempts goes on to the next attempt, and when *)
(* that attempt succeeds it returns the result and surfaces no error; an    *)
(* operation that fails with any other error on its first attempt fails at  *)
(* once: one attempt, no sleep, that error thrown.                          *)
C20_RetryOutcomes ==
    /\ \A k \in 1 .. 2 :
         (Len(call.errors) = k /\ \A i \in 1 .. k : call.errors[i] \in TransientErrors)
         => call.pc # "thrown"
    /\ call.pc = "returned" => call.thrown = <<>>
    /\ (Len(call.errors) >= 1 /\ call.errors[1] \notin TransientErrors)
         => /\ call.pc = "thrown"
            /\ Len(call.errors) = 1
            /\ call.sleeps = <<>>
            /\ call.thrown = call.errors[1]

(* C21: an error is retried if and only if its message matches the         *)
(* transient-failure vocabulary: after a first attempt has failed, the      *)
(* operation has thrown exactly when the error names none of network,       *)
(* timeout, ETIMEDOUT, ECONNRESET, ENOTFOUND, rate limit, 500, 502, 503.    *)
C21_RetriedIffTransient ==
    Len(call.errors) = 1
    => (call.pc = "thrown" <=> call.errors[1] \notin TransientErrors)

(* C22: config validation rejects every invalid TWAP configuration (no     *)
(* engine is built) and accepts every configuration that meets all the      *)
(* constraints.                                                             *)
C22_ValidationRejectsInvalid ==
    /\ Logged("TWAP strategy initialized") => ValidConfig(config)
    /\ Logged("Failed to initialize bot") => ~ValidConfig(config)

(* C23: a tick that reaches submission appends a pending record to orders  *)
(* before it calls placeOrder, and a failed placement leaves that record    *)
(* in orders: the submitting step makes orders one entry longer, the new    *)
(* entry being pending, and the failing step keeps orders, whose entries    *)
(* then include a pending one.                                              *)
C23_PendingRecordKept ==
    [][/\ \A tk \in BagToSet(ticks) : \A p \in MarketPrices :
            PriceOk(tk, p)
            => /\ Len(state'.orders) = Len(state.orders) + 1
               /\ state'.orders[Len(state'.orders)].status = "pending"
       /\ \A tk \in BagToSet(ticks) : \A error \in VenueErrors :
            PlaceFail(tk, error)
            => /\ state'.orders = state.orders
               /\ \E i \in DOMAIN state'.orders : state'.orders[i].status = "pending"]_vars

(* C24: the nominal per-order size is totalAmount / floor(duration/interval) *)
(* clamped to [minOrderSize, maxOrderSize], and every tick of a run sizes    *)
(* its order from that same value, whatever remains and however many orders *)
(* were placed: the size a tick holds is min(nominal, remaining at its      *)
(* start).                                                                  *)
C24_NominalSizeIsClamp ==
    LET n == config.duration \div config.interval
        nominal == calculateOrderSize(config)
    IN  /\ config.totalAmount < config.minOrderSize * n => nominal = config.minOrderSize
        /\ config.totalAmount > config.maxOrderSize * n => nominal = config.maxOrderSize
        /\ (/\ config.totalAmount >= config.minOrderSize * n
            /\ config.totalAmount <= config.maxOrderSize * n)
           => NearestQuotient(nominal, config.totalAmount, n)
        /\ \A tk \in BagToSet(ticks) :
             tk.orderSize = IF tk.remainingFloat < nominal THEN tk.remainingFloat ELSE nominal

C24_Witness ==
    /\ config.totalAmount > config.maxOrderSize * (config.duration \div config.interval)
    /\ state.remainingAmount < config.totalAmount
    /\ state.remainingAmount > config.maxOrderSize
    /\ \E tk \in BagToSet(ticks) :
         /\ tk.remainingFloat = state.remainingAmount
         /\ tk.orderSize = config.maxOrderSize

(* C25 as claimed: final top-up, and when totalAmount is below minOrderSize *)
(* the first tick's order of size totalAmount is the only order the run     *)
(* ever submits.                                                            *)
C25_TopUpIsSoleOrder ==
    [][/\ FinalTopUp
       /\ config.totalAmount < config.minOrderSize => nextOrderId' <= 1]_vars

(* C25 as amended: final top-up: a tick whose size min(nominal, remaining)  *)
(* is below minOrderSize while more than 0.0001 remains submits an order of *)
(* exactly the remainder; when totalAmount is below minOrderSize the first  *)
(* tick submits totalAmount, and once an order has been folded in full      *)
(* (nothing remains) the run submits no further order.                      *)
C25_FinalTopUp ==
    [][/\ FinalTopUp
       /\ (Start /\ ~isRunning /\ config.totalAmount < config.minOrderSize
              /\ config.totalAmount > Negligible)
          => \E tk \in BagToSet(ticks') :
               tk.starter /\ ~tk.stale /\ tk.orderSize = config.totalAmount
       /\ (config.totalAmount < config.minOrderSize /\ state.remainingAmount <= 0)
          => nextOrderId' = nextOrderId]_vars

C25_Witness ==
    /\ config.totalAmount < config.minOrderSize
    /\ Lifecycle = "Stopped"
    /\ Logged("TWAP execution complete: no remaining amount")
    /\ nextOrderId = 1
    /\ Len(state.orders) = 1
    /\ state.orders[1].size = config.totalAmount
    /\ state.remainingAmount = 0

(* C26: a successful placement folds exactly one amount into the run, the  *)
(* response's filledSize when it carries one and the requested size         *)
(* otherwise: executedAmount grows and remainingAmount shrinks by that      *)
(* amount, both relative to their values immediately before the fold.       *)
C26_FoldsOneAmount ==
    [][\A tk \in BagToSet(ticks) : \A response \in Responses(tk) :
         PlaceOk(tk, response)
         => LET amount == IF response.filledSize # Absent
                          THEN response.filledSize ELSE tk.orderSize
            IN  /\ state'.executedAmount = state.executedAmount + amount
                /\ state'.remainingAmount = state.remainingAmount - amount]_vars

\* the size-weighted mean of averagePrice over the records of os, rendered
\* with 8 fractional digits
WeightedMean(os) ==
    LET value[i \in 0..Len(os)] ==
            IF i = 0 THEN 0 ELSE value[i - 1] + os[i].filledSize * os[i].averagePrice
        size[i \in 0..Len(os)] ==
            IF i = 0 THEN 0 ELSE size[i - 1] + os[i].filledSize
    IN  (2 * value[Len(os)] + size[Len(os)]) \div (2 * size[Len(os)])

\* the records of the run whose status is filled
FilledRecords == SelectSeq(state.orders, LAMBDA o : o.status = "filled")

\* the filled records that carry both a filled size and an average price
PricedFills ==
    SelectSeq(state.orders, LAMBDA o : /\ o.status = "filled"
                                       /\ o.filledSize # Absent
                                       /\ o.averagePrice # Absent)

(* C27: averageExecutionPrice is the size-weighted mean of averagePrice,     *)
(* sum(filledSize * averagePrice) / sum(filledSize), over exactly the        *)
(* records of the run whose status is filled, and absent while no record of *)
(* the run is filled.                                                        *)
C27_MeanOverFilledRecords ==
    IF FilledRecords = <<>>
    THEN state.averageExecutionPrice = Absent
    ELSE /\ state.averageExecutionPrice # Absent
         /\ \A i \in 1..Len(FilledRecords) :
               FilledRecords[i].filledSize # Absent /\ FilledRecords[i].averagePrice # Absent
         /\ state.averageExecutionPrice = WeightedMean(FilledRecords)

(* C27, amended: the mean is taken over exactly the filled records that     *)
(* carry both a filledSize and an averagePrice, and averageExecutionPrice is *)
(* absent while the run has no such record.                                 *)
C27_MeanOverPricedFills ==
    IF PricedFills = <<>>
    THEN state.averageExecutionPrice = Absent
    ELSE state.averageExecutionPrice = WeightedMean(PricedFills)

\* two fills of different sizes at different prices: the mean is neither price
C27_Witness ==
    /\ Len(PricedFills) = 2
    /\ PricedFills[1].filledSize # PricedFills[2].filledSize
    /\ PricedFills[1].averagePrice # PricedFills[2].averagePrice
    /\ state.averageExecutionPrice # PricedFills[1].averagePrice
    /\ state.averageExecutionPrice # PricedFills[2].averagePrice
    /\ state.averageExecutionPrice # Absent

(* C28: after a successful placement the record's orderId, status,          *)
(* filledSize and averagePrice are those of the gateway response; a          *)
(* response with status partial or failed yields a record with that status. *)
C28_RecordTakesResponse ==
    [][\A tk \in BagToSet(ticks) : \A response \in FillResponses(tk) :
         PlaceOk(tk, response)
         => LET o == state'.orders[Len(state'.orders)]
            IN  /\ o.orderId = response.orderId
                /\ o.status = response.status
                /\ o.filledSize = response.filledSize
                /\ o.averagePrice = response.averagePrice]_vars

(* C29: every submitted order is a buy limit order whose price is           *)
(* marketPrice * (1 + slippageTolerance), to 8 fractional digits, for the    *)
(* market price fetched in the same tick; the limit price is at least that  *)
(* market price, and it is the price stored in the order's record.          *)
C29_LimitPriceAboveMarket ==
    [][/\ \A tk \in BagToSet(ticks) : \A p \in FillPrices :
           PriceOk(tk, p)
           => \E placed \in BagToSet(ticks') :
                /\ placed.pc = "place"
                /\ placed.orderId = nextOrderId'
                /\ LET o == orderParams(config, placed)
                       exact == p * (config.slipDen + config.slipNum)
                       unit == config.slipDen * PriceScale
                   IN  /\ o.side = "buy"
                       /\ o.orderType = "limit"
                       /\ 2 * (o.price * unit - exact) <= unit
                       /\ 2 * (exact - o.price * unit) <= unit
                       /\ o.price * PriceScale >= p
       /\ \A tk \in BagToSet(ticks) : \A response \in FillResponses(tk) :
           PlaceOk(tk, response)
           => state'.orders[Len(state'.orders)].price = orderParams(config, tk).price]_vars

(* C30: for every config accepted by validation, numberOfOrders =          *)
(* floor(duration / interval) is at least 1.                                 *)
C30_AtLeastOneOrder ==
    Logged("TWAP strategy initialized") => calculateNumberOfOrders(config) >= 1

\* the sum of the requested sizes of the records of os
RequestedTotal(os) ==
    LET sum[i \in 0..Len(os)] == IF i = 0 THEN 0 ELSE sum[i - 1] + os[i].size
    IN  sum[Len(os)]

(* C31: the engine never over-buys: within one run the sum of the requested *)
(* sizes of the orders that were successfully submitted to the gateway      *)
(* never exceeds totalAmount, whatever the gateway answers and whenever the *)
(* ticks run.                                                                *)
C31_NeverOverBuys == RequestedTotal(state.orders) <= state.totalAmount

(* C32: in every reachable state 0 <= remainingAmount <= totalAmount and    *)
(* 0 <= executedAmount <= totalAmount, whatever the gateway answers (a       *)
(* filledSize larger than the requested size included) and however the      *)
(* ticks interleave.                                                         *)
C32_AmountsWithinTarget ==
    /\ 0 <= state.remainingAmount
    /\ state.remainingAmount <= state.totalAmount
    /\ 0 <= state.executedAmount
    /\ state.executedAmount <= state.totalAmount

\* the setInterval timers that are armed
ArmedTimers == { id \in TimerIds : timers[id] # Off }

(* C33: at most one periodic timer is armed at any time, and none while the *)
(* engine is not Running, also when the engine stops during the first tick  *)
(* inside start() and when start() is called again before an earlier        *)
(* start() has finished its first tick.                                     *)
C33_OneTimerWhileRunning ==
    /\ Cardinality(ArmedTimers) <= 1
    /\ ~isRunning => ArmedTimers = {}

(* C34: runs are isolated from each other: after stop() followed by        *)
(* start(), the response to an order that was submitted during the previous *)
(* run changes neither orders nor executedAmount, remainingAmount or        *)
(* averageExecutionPrice of the new run.                                    *)
C34_RunsIsolated ==
    [][\A tk \in BagToSet(ticks) : \A response \in Responses(tk) :
         (PlaceOk(tk, response) /\ tk.stale /\ ~tk.lateOrder)
         => /\ state'.orders = state.orders
            /\ state'.executedAmount = state.executedAmount
            /\ state'.remainingAmount = state.remainingAmount
            /\ state'.averageExecutionPrice = state.averageExecutionPrice]_vars

(* C35: a start() that fails leaves the engine not Running: when the        *)
(* order-size derivation throws because floor(duration / interval) is 0,    *)
(* start() raises the error, isActive() is false afterwards, no timer is    *)
(* armed, and a later start() is not rejected as already running.           *)
C35_FailedStartNotRunning ==
    [][(Start /\ calculateNumberOfOrders(config) = 0)
       => /\ Logged("Duration must be greater than interval")'
          /\ ~isActive'
          /\ ArmedTimers' = {}
          /\ ~Logged("TWAP strategy is already running")']_vars

(* C36: the host's completion monitor detects natural completion: a poll   *)
(* that runs when the engine has stopped with the whole target executed     *)
(* (isActive() false, remainingAmount 0.00000000) reports 'TWAP execution   *)
(* completed successfully' and clears the polling interval.                 *)
C36_MonitorReportsCompletion ==
    [][(MonitorPoll /\ ~isActive /\ everStarted /\ state.remainingAmount = 0)
       => /\ Logged("TWAP execution completed successfully")'
          /\ monitorInterval' = "cleared"]_vars

====
